---- MODULE Spec2Model ----
(***************************************************************************)
(* A model of the diary task extraction of the time-management app:        *)
(* TaskParser (src/src/utils/taskParser.ts), the hook that owns it and     *)
(* keeps the task store (useTasks in src/src/App.tsx), the camera hook     *)
(* (useCamera) with the view that mounts it, and the StudyTimer.           *)
(*                                                                         *)
(* Text is modelled as TLA+ strings, character by character: keyword       *)
(* search is substring search, the regular expressions of the source are   *)
(* matched leftmost and greedily as the JavaScript engine matches them.    *)
(* Time is counted in ticks, TicksPerDay of them in a day; a Date is its   *)
(* time value in ticks since 1970-01-01T00:00, local time being UTC, and   *)
(* an Invalid Date is the time value NaN.                                  *)
(***************************************************************************)
EXTENDS Integers, Sequences, FiniteSets, TLC

VARIABLES
    clock,          \* the wall clock, in ticks since 1970-01-01T00:00
    timeKeywords,   \* TaskParser.timeKeywords of the parser the hook holds
    constructedOn,  \* the day (since 1970-01-01) that parser was constructed
    called,         \* whether parseText has just returned
    text,           \* the argument of that parseText call
    lines,          \* `lines` of that call: what preprocessText returned
    taskInfos,      \* `taskInfo` of parseTaskLine, for each task line of the call
    tasks,          \* what that call returned
    calls,          \* how many parseText calls the parser the hook holds has served
    storedTasks,    \* useTasks: the state `tasks`, the task store
    diaryPhotos,    \* useTasks: the state `diaryPhotos`
    processing,     \* the images of the processDiaryPhoto calls awaiting the OCR
    currentView,    \* App: the state `currentView`
    streams,        \* the MediaStreams getUserMedia has resolved with
    streamRef,      \* useCamera: streamRef.current, an index of streams or 0
    pendingStarts,  \* startCamera calls of the mounted hook awaiting getUserMedia
    orphanStarts,   \* such calls of hooks whose component has unmounted
    isRunning,      \* StudyTimer: the state `isRunning`
    timeLeft,       \* StudyTimer: the state `timeLeft`, in seconds
    isBreak,        \* StudyTimer: the state `isBreak`
    completedSessions,  \* StudyTimer: the state `completedSessions`
    selectedDuration    \* StudyTimer: the state `selectedDuration`, in minutes

parserVars == <<clock, timeKeywords, constructedOn, called, text, lines, taskInfos, tasks>>
storeVars == <<storedTasks, diaryPhotos, processing>>
cameraVars == <<streams, streamRef, pendingStarts, orphanStarts>>
timerVars == <<isRunning, timeLeft, isBreak, completedSessions, selectedDuration>>
vars == <<parserVars, calls, storeVars, currentView, cameraVars, timerVars>>

---------------------------------------------------------------------------
(* Bounds of the model *)

\* ticks in a day: tick 0 of a day is its midnight
TicksPerDay == 2
\* how many ticks the clock advances in a behaviour
MaxTicks == 2
\* how many cue phrases follow the head phrase of an input line
MaxCues == 1
\* how many lines an input text has
MaxLines == 2

---------------------------------------------------------------------------
(* Characters and strings *)

CharAt(s, i) == SubSeq(s, i, i)

LowerAlpha == "abcdefghijklmnopqrstuvwxyz"
UpperAlpha == "ABCDEFGHIJKLMNOPQRSTUVWXYZ"
DigitChars == "0123456789"

LowerSet == {CharAt(LowerAlpha, i) : i \in 1..26}
UpperSet == {CharAt(UpperAlpha, i) : i \in 1..26}
DigitSet == {CharAt(DigitChars, i) : i \in 1..10}

\* \s of the regular expressions
WhiteSet == {" ", "\t", "\n", "\r"}
\* [\n\r] of the line splitter
NewlineSet == {"\n", "\r"}
\* \w of the regular expressions
WordSet == LowerSet \cup UpperSet \cup DigitSet \cup {"_"}
\* the punctuation preprocessText keeps: - . , ! ? : ; ( ) [ ] { } ' "
KeptPunctuation ==
    {"-", ".", ",", "!", "?", ":", ";", "(", ")", "[", "]", "{", "}", "'", "\""}
KeptSet == WordSet \cup WhiteSet \cup KeptPunctuation

IsDigit(c) == c \in DigitSet
IsSpace(c) == c \in WhiteSet

\* the lower-case and the upper-case form of every letter
LowerOf == [c \in UpperSet |->
              CharAt(LowerAlpha, CHOOSE i \in 1..26 : CharAt(UpperAlpha, i) = c)]
UpperOf == [c \in LowerSet |->
              CharAt(UpperAlpha, CHOOSE i \in 1..26 : CharAt(LowerAlpha, i) = c)]

toLowerCaseChar(c) == IF c \in UpperSet THEN LowerOf[c] ELSE c

toUpperCaseChar(c) == IF c \in LowerSet THEN UpperOf[c] ELSE c

\* String.prototype.toLowerCase, a string being the two halves of it
RECURSIVE toLowerCase(_)
toLowerCase(s) ==
    IF Len(s) = 0 THEN ""
    ELSE IF Len(s) = 1 THEN toLowerCaseChar(s)
    ELSE toLowerCase(SubSeq(s, 1, Len(s) \div 2))
         \o toLowerCase(SubSeq(s, Len(s) \div 2 + 1, Len(s)))

\* String.prototype.includes
includes(s, k) ==
    \E i \in 1..(Len(s) - Len(k) + 1) : SubSeq(s, i, i + Len(k) - 1) = k

\* whether k occurs in s at position i
At(s, i, k) == i >= 1 /\ i + Len(k) - 1 <= Len(s) /\ SubSeq(s, i, i + Len(k) - 1) = k

\* substring(from, to) with 0-based from and exclusive to, as in JavaScript
substring(s, from, to) == SubSeq(s, from + 1, IF to > Len(s) THEN Len(s) ELSE to)

\* the length of the longest run of digits of s that starts at position i
RECURSIVE DigitRun(_, _)
DigitRun(s, i) ==
    IF i <= Len(s) /\ IsDigit(CharAt(s, i)) THEN 1 + DigitRun(s, i + 1) ELSE 0

\* the length of the longest run of white space of s that starts at position i
RECURSIVE SpaceRun(_, _)
SpaceRun(s, i) ==
    IF i <= Len(s) /\ IsSpace(CharAt(s, i)) THEN 1 + SpaceRun(s, i + 1) ELSE 0

Min(a, b) == IF a < b THEN a ELSE b

\* the least element of a non-empty set of numbers
Least(S) == CHOOSE k \in S : \A j \in S : k <= j

\* the value of a decimal digit
DigitValue == [c \in DigitSet |-> (CHOOSE i \in 1..10 : CharAt(DigitChars, i) = c) - 1]

\* parseInt of a string of decimal digits
RECURSIVE parseInt(_)
parseInt(s) ==
    IF s = "" THEN 0
    ELSE 10 * parseInt(SubSeq(s, 1, Len(s) - 1)) + DigitValue[CharAt(s, Len(s))]

\* String.prototype.trim
RECURSIVE trimStart(_)
trimStart(s) ==
    IF s # "" /\ IsSpace(CharAt(s, 1)) THEN trimStart(SubSeq(s, 2, Len(s))) ELSE s

RECURSIVE trimEnd(_)
trimEnd(s) ==
    IF s # "" /\ IsSpace(CharAt(s, Len(s)))
    THEN trimEnd(SubSeq(s, 1, Len(s) - 1)) ELSE s

trim(s) == trimEnd(trimStart(s))

\* String.prototype.split(sep), sep one character
RECURSIVE splitOn(_, _)
splitOn(s, sep) ==
    LET hits == {i \in 1..Len(s) : CharAt(s, i) = sep}
    IN  IF hits # {}
        THEN <<SubSeq(s, 1, Least(hits) - 1)>>
             \o splitOn(SubSeq(s, Least(hits) + 1, Len(s)), sep)
        ELSE <<s>>

\* Array.prototype.join
RECURSIVE join(_, _)
join(ws, sep) ==
    IF ws = <<>> THEN ""
    ELSE IF Len(ws) = 1 THEN ws[1]
    ELSE ws[1] \o sep \o join(Tail(ws), sep)

---------------------------------------------------------------------------
(* preprocessText *)

\* .replace(/[^\w\s\-.,!?:;()[\]{}'"]/g, ' ')
RECURSIVE replaceSpecial(_)
replaceSpecial(s) ==
    IF Len(s) = 0 THEN ""
    ELSE IF Len(s) = 1 THEN (IF s \in KeptSet THEN s ELSE " ")
    ELSE replaceSpecial(SubSeq(s, 1, Len(s) \div 2))
         \o replaceSpecial(SubSeq(s, Len(s) \div 2 + 1, Len(s)))

\* .replace(/\s+/g, ' '): every run of white space, line breaks included,
\* becomes one space
\* what the characters lo..hi of s become: a white space character that
\* follows one is in the run of it and disappears
RECURSIVE normalizedPart(_, _, _)
normalizedPart(s, lo, hi) ==
    IF lo > hi THEN ""
    ELSE IF lo = hi
    THEN (IF ~IsSpace(CharAt(s, lo)) THEN CharAt(s, lo)
          ELSE IF lo > 1 /\ IsSpace(CharAt(s, lo - 1)) THEN "" ELSE " ")
    ELSE normalizedPart(s, lo, (lo + hi) \div 2)
         \o normalizedPart(s, (lo + hi) \div 2 + 1, hi)

normalizeWhitespace(s) == normalizedPart(s, 1, Len(s))

\* the length of the longest run of line breaks of s that starts at position i
RECURSIVE NewlineRun(_, _)
NewlineRun(s, i) ==
    IF i <= Len(s) /\ CharAt(s, i) \in NewlineSet
    THEN 1 + NewlineRun(s, i + 1) ELSE 0

\* .split(/[\n\r]+/)
RECURSIVE splitLines(_)
splitLines(s) ==
    LET hits == {i \in 1..Len(s) : CharAt(s, i) \in NewlineSet}
    IN  IF hits # {}
        THEN <<SubSeq(s, 1, Least(hits) - 1)>>
             \o splitLines(SubSeq(s, Least(hits) + NewlineRun(s, Least(hits)), Len(s)))
        ELSE <<s>>

\* the text cleaned and normalized, before it is split
\* cleanText with the two replacements in the other order
cleanText_whitespaceFirst(t) == trim(replaceSpecial(normalizeWhitespace(t)))

cleanText(t) == trim(normalizeWhitespace(replaceSpecial(t)))

\* the filter keeping the lines of length 3: line.length >= 3
RECURSIVE filterShortLines_atLeast3(_)
filterShortLines_atLeast3(ls) ==
    IF ls = <<>> THEN <<>>
    ELSE (IF Len(ls[1]) >= 3 THEN <<ls[1]>> ELSE <<>>)
         \o filterShortLines_atLeast3(Tail(ls))

\* .filter(line => line.length > 3)
RECURSIVE filterShortLines(_)
filterShortLines(ls) ==
    IF ls = <<>> THEN <<>>
    ELSE (IF Len(ls[1]) > 3 THEN <<ls[1]>> ELSE <<>>) \o filterShortLines(Tail(ls))

preprocessText(t) ==
    LET split == splitLines(cleanText(t))
        trimmed == [i \in 1..Len(split) |-> trim(split[i])]
    IN  filterShortLines(trimmed)

---------------------------------------------------------------------------
(* isTaskLine *)

taskIndicators ==
    <<"homework", "assignment", "due", "test", "exam", "quiz",
      "essay", "project", "read", "study", "complete", "finish",
      "chapter", "page", "exercise", "problem", "lab", "report">>

\* keywords.some(keyword => line.includes(keyword))
someIncluded(line, keywords) ==
    \E k \in 1..Len(keywords) : includes(line, keywords[k])

\* isTaskLine with a keyword counted only as a whole word of the line
isTaskLine_wholeWords(line) ==
    \E k \in 1..Len(taskIndicators) :
        \E w \in 1..Len(splitOn(toLowerCase(line), " ")) :
            splitOn(toLowerCase(line), " ")[w] = taskIndicators[k]

isTaskLine(line) == someIncluded(toLowerCase(line), taskIndicators)

---------------------------------------------------------------------------
(* Date *)

\* the time value of an Invalid Date
NaN == -2000000000
\* a time value is at most this many days from 1970-01-01 (ECMAScript's
\* time range); a Date built from a larger one is an Invalid Date
MaxDateDays == 100000000

\* new Date(value)
TimeClip(t) ==
    IF t > MaxDateDays * TicksPerDay \/ t < -(MaxDateDays * TicksPerDay)
    THEN NaN ELSE t

\* new Date(date.getTime() + days * 24 * 60 * 60 * 1000)
AddDays(t, days) == IF t = NaN THEN NaN ELSE TimeClip(t + days * TicksPerDay)

\* date1 > date2 and date1 < date2 of two Dates: false when either is an
\* Invalid Date
DateGreater(a, b) == a # NaN /\ b # NaN /\ a > b
DateLess(a, b) == a # NaN /\ b # NaN /\ a < b

\* days from 1970-01-01 to the civil date y-m-d, m in 1..12, d any integer
DaysFromCivil(y, m, d) ==
    LET yy  == IF m <= 2 THEN y - 1 ELSE y
        era == yy \div 400
        yoe == yy - (era * 400)
        mp  == (m + 9) % 12
        doy == (((153 * mp) + 2) \div 5) + d - 1
        doe == (yoe * 365) + (yoe \div 4) - (yoe \div 100) + doy
    IN  (era * 146097) + doe - 719468

\* the civil year of the day `days` after 1970-01-01
YearOfDay(days) ==
    LET z   == days + 719468
        era == z \div 146097
        doe == z - (era * 146097)
        yoe == (doe - (doe \div 1460) + (doe \div 36524) - (doe \div 146096)) \div 365
        doy == doe - ((365 * yoe) + (yoe \div 4) - (yoe \div 100))
        mp  == ((5 * doy) + 2) \div 153
        m   == IF mp < 10 THEN mp + 3 ELSE mp - 9
    IN  yoe + (era * 400) + (IF m <= 2 THEN 1 ELSE 0)

DayOf(t) == t \div TicksPerDay

\* Date.prototype.getDay: 0 is Sunday; 1970-01-01 was a Thursday
getDay(t) == (DayOf(t) + 4) % 7

\* Date.prototype.getFullYear
getFullYear(t) == YearOfDay(DayOf(t))

\* new Date(year, month, day): month is 0-based and overflows into the
\* years, day overflows into the months, a year 0..99 means 1900 + year,
\* the time of day is midnight
MakeDate(year, month, day) ==
    LET fullYear == IF year >= 0 /\ year <= 99 THEN 1900 + year ELSE year
        y == fullYear + (month \div 12)
        m == (month % 12) + 1
    IN  TimeClip(DaysFromCivil(y, m, day) * TicksPerDay)

---------------------------------------------------------------------------
(* The lookup tables of TaskParser *)

subjects ==
    <<"mathematics", "math", "maths", "algebra", "geometry", "calculus",
      "science", "physics", "chemistry", "biology", "bio",
      "english", "literature", "writing", "essay", "reading",
      "history", "social studies", "geography", "civics",
      "art", "drawing", "painting", "music",
      "computer science", "programming", "coding",
      "physical education", "pe", "sports",
      "french", "spanish", "german", "language">>

\* getDaysUntilWeekday without the roll to 7 when today is the target day
getDaysUntilWeekday_noRollover(targetDay, today) ==
    (targetDay - getDay(today) + 7) % 7

getDaysUntilWeekday(targetDay, today) ==
    LET currentDay == getDay(today)
        daysUntil == (targetDay - currentDay + 7) % 7
    IN  IF daysUntil = 0 THEN 7 ELSE daysUntil

\* the field initializer of timeKeywords, run by the constructor when the
\* clock reads `today`; Object.entries lists it in this order
timeKeywordsAt(today) ==
    << [keyword |-> "today",              days |-> 0],
       [keyword |-> "tomorrow",           days |-> 1],
       [keyword |-> "day after tomorrow", days |-> 2],
       [keyword |-> "next week",          days |-> 7],
       [keyword |-> "next monday",        days |-> getDaysUntilWeekday(1, today)],
       [keyword |-> "next tuesday",       days |-> getDaysUntilWeekday(2, today)],
       [keyword |-> "next wednesday",     days |-> getDaysUntilWeekday(3, today)],
       [keyword |-> "next thursday",      days |-> getDaysUntilWeekday(4, today)],
       [keyword |-> "next friday",        days |-> getDaysUntilWeekday(5, today)],
       [keyword |-> "next saturday",      days |-> getDaysUntilWeekday(6, today)],
       [keyword |-> "next sunday",        days |-> getDaysUntilWeekday(0, today)] >>

priorityKeywords ==
    << [priority |-> "high",
        keywords |-> <<"urgent", "important", "asap", "priority",
                       "due tomorrow", "test", "exam", "quiz">>],
       [priority |-> "medium",
        keywords |-> <<"assignment", "homework", "project", "essay", "report">>],
       [priority |-> "low",
        keywords |-> <<"read", "review", "practice", "optional",
                       "extra credit">>] >>

taskTypeKeywords ==
    << [type |-> "test",     keywords |-> <<"test", "exam", "quiz", "assessment">>],
       [type |-> "essay",    keywords |-> <<"essay", "paper", "composition", "writing">>],
       [type |-> "project",  keywords |-> <<"project", "presentation", "research">>],
       [type |-> "homework", keywords |-> <<"homework", "assignment", "exercises", "problems">>],
       [type |-> "reading",  keywords |-> <<"read", "chapter", "pages", "book">>],
       [type |-> "lab",      keywords |-> <<"lab", "experiment", "practical">>] >>

---------------------------------------------------------------------------
(* extractSubject *)

capitalize(word) ==
    IF word = "" THEN ""
    ELSE toUpperCaseChar(CharAt(word, 1)) \o SubSeq(word, 2, Len(word))

\* subject.split(' ').map(capitalize).join(' ')
titleCase(subject) ==
    LET words == splitOn(subject, " ")
    IN  join([i \in 1..Len(words) |-> capitalize(words[i])], " ")

\* extractSubject returning the last entry of the list that occurs
extractSubject_lastMatch(line) ==
    LET hits == {i \in 1..Len(subjects) : includes(line, subjects[i])}
    IN  IF hits # {}
        THEN titleCase(subjects[CHOOSE i \in hits : \A j \in hits : j <= i])
        ELSE "General"

extractSubject(line) ==
    LET hits == {i \in 1..Len(subjects) : includes(line, subjects[i])}
    IN  IF hits # {} THEN titleCase(subjects[Least(hits)]) ELSE "General"

---------------------------------------------------------------------------
(* extractDueDate *)

\* A match of a regular expression is the sequence of its capture groups,
\* "" for a group that took no part; no match is the empty sequence.
NoMatch == <<>>

\* line.match(/in (\d+) days?/)
inDaysMatch(line) ==
    LET Here(i) == /\ At(line, i, "in ")
                   /\ DigitRun(line, i + 3) >= 1
                   /\ At(line, i + 3 + DigitRun(line, i + 3), " day")
        hits == {i \in 1..Len(line) : Here(i)}
    IN  IF hits # {}
        THEN LET i == Least(hits)
             IN  <<SubSeq(line, i + 3, i + 2 + DigitRun(line, i + 3))>>
        ELSE NoMatch

\* line.match(/(\d{1,2})SEP(\d{1,2})(?:SEP(\d{2,4}))?/), SEP one character
datePatternMatch(line, sep) ==
    LET Here(i) == LET r == DigitRun(line, i)
                   IN  /\ r \in {1, 2}
                       /\ At(line, i + r, sep)
                       /\ DigitRun(line, i + r + 1) >= 1
        hits == {i \in 1..Len(line) : Here(i)}
    IN  IF hits # {}
        THEN LET i  == Least(hits)
                 n1 == DigitRun(line, i)
                 s2 == i + n1 + 1
                 n2 == Min(DigitRun(line, s2), 2)
                 s3 == s2 + n2 + 1
                 n3 == IF At(line, s3 - 1, sep) THEN Min(DigitRun(line, s3), 4) ELSE 0
             IN  << SubSeq(line, i, i + n1 - 1),
                    SubSeq(line, s2, s2 + n2 - 1),
                    IF n3 >= 2 THEN SubSeq(line, s3, s3 + n3 - 1) ELSE "" >>
        ELSE NoMatch

\* the separators of datePatterns, in the order the patterns are tried
datePatterns == <<"/", "-", ".">>

\* dateOfMatch reading the pair as day, then month
dateOfMatch_dayFirst(match, now) ==
    MakeDate(IF match[3] # "" THEN parseInt(match[3]) ELSE getFullYear(now),
             parseInt(match[2]) - 1, parseInt(match[1]))

\* the Date a match of a date pattern is read as
dateOfMatch(match, now) ==
    LET month == parseInt(match[1]) - 1
        day   == parseInt(match[2])
        year  == IF match[3] # "" THEN parseInt(match[3]) ELSE getFullYear(now)
    IN  MakeDate(year, month, day)

\* dateAccepted without the test date > now
dateAccepted_anyDate(line, sep, now) == datePatternMatch(line, sep) # NoMatch

\* whether the date pattern of separator sep returns from the loop
dateAccepted(line, sep, now) ==
    LET match == datePatternMatch(line, sep)
    IN  match # NoMatch /\ DateGreater(dateOfMatch(match, now), now)

\* the entries of the table whose keyword occurs in the line
keywordHits(line, table) ==
    {k \in 1..Len(table) : includes(line, table[k].keyword)}

\* extractDueDate with the date patterns tried before the keyword table
extractDueDate_datesFirst(line, now, table) ==
    LET hits     == keywordHits(line, table)
        inDays   == inDaysMatch(line)
        accepted == {p \in 1..Len(datePatterns) :
                        dateAccepted(line, datePatterns[p], now)}
    IN  IF accepted # {}
        THEN dateOfMatch(datePatternMatch(line, datePatterns[Least(accepted)]), now)
        ELSE IF hits # {} THEN AddDays(now, table[Least(hits)].days)
        ELSE IF inDays # NoMatch THEN AddDays(now, parseInt(inDays[1]))
        ELSE AddDays(now, 7)

\* extractDueDate leaving the loop after the first date pattern that matches
extractDueDate_firstPatternOnly(line, now, table) ==
    LET hits    == keywordHits(line, table)
        inDays  == inDaysMatch(line)
        matched == {p \in 1..Len(datePatterns) :
                        datePatternMatch(line, datePatterns[p]) # NoMatch}
    IN  IF hits # {} THEN AddDays(now, table[Least(hits)].days)
        ELSE IF inDays # NoMatch THEN AddDays(now, parseInt(inDays[1]))
        ELSE IF matched # {} /\ dateAccepted(line, datePatterns[Least(matched)], now)
        THEN dateOfMatch(datePatternMatch(line, datePatterns[Least(matched)]), now)
        ELSE AddDays(now, 7)

extractDueDate(line, now, table) ==
    LET hits     == keywordHits(line, table)
        inDays   == inDaysMatch(line)
        accepted == {p \in 1..Len(datePatterns) :
                        dateAccepted(line, datePatterns[p], now)}
    IN  IF hits # {} THEN AddDays(now, table[Least(hits)].days)
        ELSE IF inDays # NoMatch THEN AddDays(now, parseInt(inDays[1]))
        ELSE IF accepted # {}
        THEN dateOfMatch(datePatternMatch(line, datePatterns[Least(accepted)]), now)
        ELSE AddDays(now, 7)

---------------------------------------------------------------------------
(* extractPriority, extractEstimatedTime, extractTaskType *)

\* extractPriority with the groups tried in the order high, low, medium
extractPriority_lowBeforeMedium(line) ==
    IF someIncluded(line, priorityKeywords[1].keywords) THEN "high"
    ELSE IF someIncluded(line, priorityKeywords[3].keywords) THEN "low"
    ELSE "medium"

extractPriority(line) ==
    LET hits == {g \in 1..Len(priorityKeywords) :
                    someIncluded(line, priorityKeywords[g].keywords)}
    IN  IF hits # {} THEN priorityKeywords[Least(hits)].priority ELSE "medium"

\* line.match(/(\d+)\s*(minutes?|mins?|hours?|hrs?)/)
timeMatch(line) ==
    LET UnitAt(k) == IF At(line, k, "minutes") THEN "minutes"
                     ELSE IF At(line, k, "minute") THEN "minute"
                     ELSE IF At(line, k, "mins") THEN "mins"
                     ELSE IF At(line, k, "min") THEN "min"
                     ELSE IF At(line, k, "hours") THEN "hours"
                     ELSE IF At(line, k, "hour") THEN "hour"
                     ELSE IF At(line, k, "hrs") THEN "hrs"
                     ELSE IF At(line, k, "hr") THEN "hr"
                     ELSE ""
        UnitPos(i) == i + DigitRun(line, i) + SpaceRun(line, i + DigitRun(line, i))
        Here(i) == DigitRun(line, i) >= 1 /\ UnitAt(UnitPos(i)) # ""
        hits == {i \in 1..Len(line) : Here(i)}
    IN  IF hits # {}
        THEN LET i == Least(hits)
             IN  <<SubSeq(line, i, i + DigitRun(line, i) - 1), UnitAt(UnitPos(i))>>
        ELSE NoMatch

startsWith(s, k) == At(s, 1, k)

\* extractEstimatedTime taking only the units that start with "hour" for hours
extractEstimatedTime_hourOnly(line) ==
    LET match == timeMatch(line)
    IN  IF match # NoMatch
        THEN IF startsWith(toLowerCase(match[2]), "hour")
             THEN parseInt(match[1]) * 60
             ELSE parseInt(match[1])
        ELSE IF includes(line, "test") \/ includes(line, "exam") THEN 120
        ELSE IF includes(line, "essay") \/ includes(line, "project") THEN 180
        ELSE IF includes(line, "read") THEN 45
        ELSE IF includes(line, "homework") \/ includes(line, "assignment") THEN 60
        ELSE IF includes(line, "lab") \/ includes(line, "experiment") THEN 90
        ELSE 60

extractEstimatedTime(line) ==
    LET match == timeMatch(line)
    IN  IF match # NoMatch
        THEN IF startsWith(toLowerCase(match[2]), "hour")
                \/ startsWith(toLowerCase(match[2]), "hr")
             THEN parseInt(match[1]) * 60
             ELSE parseInt(match[1])
        ELSE IF includes(line, "test") \/ includes(line, "exam") THEN 120
        ELSE IF includes(line, "essay") \/ includes(line, "project") THEN 180
        ELSE IF includes(line, "read") THEN 45
        ELSE IF includes(line, "homework") \/ includes(line, "assignment") THEN 60
        ELSE IF includes(line, "lab") \/ includes(line, "experiment") THEN 90
        ELSE 60

\* extractTaskType returning the last type one of whose keywords occurs
extractTaskType_lastMatch(line) ==
    LET hits == {g \in 1..Len(taskTypeKeywords) :
                    someIncluded(line, taskTypeKeywords[g].keywords)}
    IN  IF hits # {}
        THEN taskTypeKeywords[CHOOSE g \in hits : \A j \in hits : j <= g].type
        ELSE "homework"

extractTaskType(line) ==
    LET hits == {g \in 1..Len(taskTypeKeywords) :
                    someIncluded(line, taskTypeKeywords[g].keywords)}
    IN  IF hits # {} THEN taskTypeKeywords[Least(hits)].type ELSE "homework"

extractTaskInfo(line, now, table) ==
    [ subject       |-> extractSubject(line),
      dueDate       |-> extractDueDate(line, now, table),
      priority      |-> extractPriority(line),
      estimatedTime |-> extractEstimatedTime(line),
      taskType      |-> extractTaskType(line) ]

---------------------------------------------------------------------------
(* generateTitleAndDescription *)

\* whether k, given in lower case, occurs in s at position i in any case
\* (the flag i of the regular expressions)
AtIgnoreCase(s, i, k) ==
    i >= 1 /\ i + Len(k) - 1 <= Len(s) /\ toLowerCase(SubSeq(s, i, i + Len(k) - 1)) = k

\* where the number of /STEMs?\s*(\d+(?:-\d+)?)/i starts when STEM is at
\* position i of the line: after the stem, an s when the pattern has the s?
\* and the line has the s, and the white space
NumberPos(line, i, stem, plural) ==
    i + Len(stem)
    + (IF plural /\ AtIgnoreCase(line, i + Len(stem), "s") THEN 1 ELSE 0)
    + SpaceRun(line, i + Len(stem)
                     + (IF plural /\ AtIgnoreCase(line, i + Len(stem), "s") THEN 1 ELSE 0))

\* numberAt without the range (?:-\d+)?
numberAt_noRange(line, s1) == SubSeq(line, s1, s1 + DigitRun(line, s1) - 1)

\* the group (\d+(?:-\d+)?) matched at position s1
numberAt(line, s1) ==
    SubSeq(line, s1,
           s1 + DigitRun(line, s1) - 1
           + (IF At(line, s1 + DigitRun(line, s1), "-")
                 /\ DigitRun(line, s1 + DigitRun(line, s1) + 1) >= 1
              THEN 1 + DigitRun(line, s1 + DigitRun(line, s1) + 1) ELSE 0))

\* line.match(/STEMs?\s*(\d+(?:-\d+)?)/i), and without the s? when
\* plural is FALSE: the capture group, or NoMatch
numberMatch(line, stem, plural) ==
    LET hits == {i \in 1..Len(line) :
                    /\ AtIgnoreCase(line, i, stem)
                    /\ DigitRun(line, NumberPos(line, i, stem, plural)) >= 1}
    IN  IF hits # {}
        THEN <<numberAt(line, NumberPos(line, Least(hits), stem, plural))>>
        ELSE NoMatch

stopWords == {"the", "and", "for", "due", "on"}

\* words.filter(word => word.length > 2 && !stopWords.includes(word.toLowerCase()))
RECURSIVE meaningfulWords(_)
meaningfulWords(words) ==
    IF words = <<>> THEN <<>>
    ELSE (IF Len(words[1]) > 2 /\ toLowerCase(words[1]) \notin stopWords
          THEN <<words[1]>> ELSE <<>>) \o meaningfulWords(Tail(words))

\* the title length above which a title is cut, and the length it is cut to
MaxTitleLength == 50
CutTitleLength == 47

\* truncate cutting at the length it tests
truncate_cutAtMax(s) ==
    IF Len(s) > MaxTitleLength THEN substring(s, 0, MaxTitleLength) \o "..." ELSE s

\* s.length > 50 ? s.substring(0, 47) + '...' : s
truncate(s) ==
    IF Len(s) > MaxTitleLength THEN substring(s, 0, CutTitleLength) \o "..." ELSE s

\* the switch on taskType, given the four matches
titleOfType(line, taskType, subject, chapterMatch, pageMatch, problemMatch, exerciseMatch) ==
    CASE taskType = "test" ->
           IF chapterMatch # NoMatch
           THEN [ title |-> subject \o " " \o taskType
                            \o " - Chapter " \o chapterMatch[1],
                  description |-> "Study for " \o toLowerCase(subject)
                            \o " test covering chapter " \o chapterMatch[1] ]
           ELSE [ title |-> subject \o " " \o taskType, description |-> line ]
      [] taskType = "essay" ->
           [ title |-> subject \o " Essay",
             description |-> "Write essay for " \o toLowerCase(subject) ]
      [] taskType = "reading" ->
           IF chapterMatch # NoMatch
           THEN [ title |-> "Read " \o subject \o " Chapter " \o chapterMatch[1],
                  description |-> "Read chapter " \o chapterMatch[1]
                            \o " for " \o toLowerCase(subject) ]
           ELSE IF pageMatch # NoMatch
           THEN [ title |-> "Read " \o subject \o " Pages " \o pageMatch[1],
                  description |-> "Read pages " \o pageMatch[1]
                            \o " for " \o toLowerCase(subject) ]
           ELSE [ title |-> "Read " \o subject, description |-> line ]
      [] taskType = "homework" ->
           IF problemMatch # NoMatch
           THEN [ title |-> subject \o " Homework - Problems " \o problemMatch[1],
                  description |-> "Complete problems " \o problemMatch[1]
                            \o " for " \o toLowerCase(subject) ]
           ELSE IF exerciseMatch # NoMatch
           THEN [ title |-> subject \o " Homework - Exercises " \o exerciseMatch[1],
                  description |-> "Complete exercises " \o exerciseMatch[1]
                            \o " for " \o toLowerCase(subject) ]
           ELSE [ title |-> subject \o " Homework", description |-> line ]
      [] OTHER ->
           [ title |-> truncate(join(SubSeq(meaningfulWords(splitOn(line, " ")), 1,
                            Min(6, Len(meaningfulWords(splitOn(line, " "))))), " ")),
             description |-> line ]

\* the end of generateTitleAndDescription: the fallback title, the trims
titleEnsured(line, t) ==
    [ title |-> trim(IF trim(t.title) = "" THEN truncate(line) ELSE t.title),
      description |-> trim(t.description) ]

generateTitleAndDescription(line, taskInfo) ==
    titleEnsured(line,
        titleOfType(line,
            IF taskInfo.taskType = "" THEN "assignment" ELSE taskInfo.taskType,
            IF taskInfo.subject = "" THEN "General" ELSE taskInfo.subject,
            numberMatch(line, "chapter", FALSE),
            numberMatch(line, "page", TRUE),
            numberMatch(line, "problem", TRUE),
            numberMatch(line, "exercise", TRUE)))

---------------------------------------------------------------------------
(* parseTaskLine, parseText *)

\* the id without the index of the line: `ocr_${Date.now()}`
ocrId_noIndex(now, index) == "ocr_" \o ToString(now)

\* the id of a parsed task: `ocr_${Date.now()}_${index}`
ocrId(now, index) == "ocr_" \o ToString(now) \o "_" \o ToString(index)

\* taskOf without the default of estimatedTime: taskInfo.estimatedTime
taskOf_noTimeDefault(index, now, taskInfo, td) ==
    IF td.title = "" THEN <<>>
    ELSE << [ id            |-> ocrId(now, index),
              title         |-> td.title,
              subject       |-> IF taskInfo.subject = "" THEN "General"
                                ELSE taskInfo.subject,
              description   |-> td.description,
              dueDate       |-> taskInfo.dueDate,
              priority      |-> IF taskInfo.priority = "" THEN "medium"
                                ELSE taskInfo.priority,
              estimatedTime |-> taskInfo.estimatedTime,
              completed     |-> FALSE,
              createdFrom   |-> "diary" ] >>

\* taskOf with the test of the title inverted: if (title) return null
taskOf_nullWhenTitled(index, now, taskInfo, td) ==
    IF td.title # "" THEN <<>>
    ELSE << [ id            |-> ocrId(now, index),
              title         |-> td.title,
              subject       |-> taskInfo.subject,
              description   |-> td.description,
              dueDate       |-> taskInfo.dueDate,
              priority      |-> taskInfo.priority,
              estimatedTime |-> taskInfo.estimatedTime,
              completed     |-> FALSE,
              createdFrom   |-> "diary" ] >>

\* The return of parseTaskLine, as a sequence of one task, or the empty
\* sequence where the source returns null. A Date, valid or not, is truthy:
\* `taskInfo.dueDate || ...` is taskInfo.dueDate. The other `||` defaults
\* replace "" and 0.
taskOf(index, now, taskInfo, td) ==
    IF td.title = "" THEN <<>>
    ELSE << [ id            |-> ocrId(now, index),
              title         |-> td.title,
              subject       |-> IF taskInfo.subject = "" THEN "General"
                                ELSE taskInfo.subject,
              description   |-> td.description,
              dueDate       |-> taskInfo.dueDate,
              priority      |-> IF taskInfo.priority = "" THEN "medium"
                                ELSE taskInfo.priority,
              estimatedTime |-> IF taskInfo.estimatedTime = 0 THEN 60
                                ELSE taskInfo.estimatedTime,
              completed     |-> FALSE,
              createdFrom   |-> "diary" ] >>

taskOfInfo(line, index, now, taskInfo) ==
    taskOf(index, now, taskInfo, generateTitleAndDescription(line, taskInfo))

\* index is the 0-based index of the line
parseTaskLine(line, index, now, table) ==
    taskOfInfo(line, index, now, extractTaskInfo(toLowerCase(line), now, table))

\* the loop of parseText over lines[i..]
RECURSIVE parseLines(_, _, _, _)
parseLines(ls, i, now, table) ==
    IF i > Len(ls) THEN <<>>
    ELSE (IF isTaskLine(ls[i]) THEN parseTaskLine(ls[i], i - 1, now, table)
          ELSE <<>>) \o parseLines(ls, i + 1, now, table)

parseText(t, now, table) == parseLines(preprocessText(t), 1, now, table)

\* the values `taskInfo` takes in the calls of parseTaskLine that the loop
\* of parseText makes over ls[i..]
RECURSIVE taskInfosOf(_, _, _, _)
taskInfosOf(ls, i, now, table) ==
    IF i > Len(ls) THEN <<>>
    ELSE (IF isTaskLine(ls[i]) THEN <<extractTaskInfo(toLowerCase(ls[i]), now, table)>>
          ELSE <<>>) \o taskInfosOf(ls, i + 1, now, table)

---------------------------------------------------------------------------
(* The inputs: recognized text handed to parseText *)

\* what an input line starts with
Heads ==
    { "Math homework", "History essay", "Read chapter 3-5 for history",
      "Science lab report", "Group project 1-2", "Physics test",
      "Study French", "Buy bread", "Clean your room",
      "Essay due 12/25 next week" }

\* the temporal cues that may follow
Cues ==
    { "today", "tomorrow", "day after tomorrow", "next week",
      "next tuesday", "next wednesday", "next sunday",
      "in 3 days", "in 1 day", "in 99999999 days",
      "12/25", "3-4", "7-4", "3-5-2026", "12-25-26", "3.7" }

RECURSIVE CueTails(_)
CueTails(n) ==
    IF n = 0 THEN {""}
    ELSE CueTails(n - 1) \cup {t \o " " \o c : t \in CueTails(n - 1), c \in Cues}

\* the heads that are followed by more than one cue
PlainHeads == {"Math homework", "Group project 1-2"}

\* every head with at most one cue, the plain heads with up to MaxCues cues
InputLines ==
    {h \o t : h \in Heads, t \in CueTails(1)}
    \cup {h \o t : h \in PlainHeads, t \in CueTails(MaxCues)}

\* the lines of the texts of several lines, and what separates them
ShortLines == {"Math homework", "Read chapter 5", "Clean your room", "ok"}
LineBreaks == {"\n", "\r\n"}

RECURSIVE LinesJoined(_)
LinesJoined(n) ==
    IF n = 1 THEN ShortLines
    ELSE LinesJoined(n - 1)
         \cup {t \o b \o l : t \in LinesJoined(n - 1), b \in LineBreaks, l \in ShortLines}

\* texts of characters outside the kept set, of white space, of punctuation
NoiseTexts ==
    { "", "?!", "!!!!!", " Math\thomework  @ due#tomorrow ", "Quiz* on 3/9" }

\* lines that state a time, a subject of two words, a chapter, pages, a
\* long range of numbers, long words
ExampleTexts ==
    { "Math homework due tomorrow chapter 5",
      "Math test, 2 hours", "Read 30 minutes", "Physics test 90 mins",
      "Study French 2 hrs then 20 min", "Science lab 0 minutes",
      "History essay 0 hours", "Art project 45minutes",
      "Physical education project", "Optional review",
      "Read chapter 3 pages 10-12", "Read pages 10-12 tonight",
      "Read Chapter7 of the book", "Read page 4",
      "Read chapter 12345678901234567890-12345678901234567890 for history",
      "Physical education homework problems 1234567890-1234567890",
      "Laboratory experiment preparation documentation requirements overview",
      "Research the presentation and equipment for practical on 3-9",
      "?!.", "@@@@@", "?!@#?!", "...:;,,," }

Texts == InputLines \cup LinesJoined(MaxLines) \cup NoiseTexts \cup ExampleTexts

\* the first instant of the model: 2026-03-03T00:00, a Tuesday
StartTimes == {DaysFromCivil(2026, 3, 3) * TicksPerDay}

---------------------------------------------------------------------------
(* useTasks: the task store *)

\* how many tasks addTask and addMultipleTasks put into a store
MaxStored == 2
\* how many processDiaryPhoto calls a behaviour makes
MaxPhotos == 1

\* s repeated n times
RECURSIVE Repeat(_, _)
Repeat(s, n) ==
    IF n = 0 THEN ""
    ELSE IF n = 1 THEN s
    ELSE Repeat(s, n \div 2) \o Repeat(s, n - n \div 2)

\* the images of the model
Images == {"blurred.jpg", "blank.jpg", "homework.jpg", "notes.jpg", "letter.jpg"}

\* What extractTextFromImage does with an image: it rejects, or resolves
\* with a text (data.text.trim()). The text of notes.jpg has 200
\* characters and that of letter.jpg 201, the gap between two columns of
\* the page being kept (preserve_interword_spaces); neither has a task
\* indicator.
ocrResult(imageUrl) ==
    CASE imageUrl = "blurred.jpg"  -> [rejected |-> TRUE, text |-> ""]
      [] imageUrl = "blank.jpg"    -> [rejected |-> FALSE, text |-> ""]
      [] imageUrl = "homework.jpg" -> [rejected |-> FALSE, text |-> "Math homework"]
      [] imageUrl = "notes.jpg"    ->
            [rejected |-> FALSE, text |-> "Buy milk" \o Repeat(" ", 184) \o "tomorrow"]
      [] imageUrl = "letter.jpg"   ->
            [rejected |-> FALSE, text |-> "Buy milk" \o Repeat(" ", 185) \o "tomorrow"]

\* Date.now().toString()
nowId(now) == ToString(now)

\* new Date(Date.now() + days * 24 * 60 * 60 * 1000)
daysFromNow(now, days) == now + days * TicksPerDay

\* the description of the fallback task cut one character early
fallbackDescription_cutEarly(t) ==
    substring(t, 0, 199) \o (IF Len(t) > 199 THEN "..." ELSE "")

\* ocrResult.text.substring(0, 200) + (ocrResult.text.length > 200 ? '...' : '')
fallbackDescription(t) ==
    substring(t, 0, 200) \o (IF Len(t) > 200 THEN "..." ELSE "")

fallbackTask(t, now) ==
    [ id            |-> nowId(now),
      title         |-> "Review extracted content",
      subject       |-> "General",
      description   |-> fallbackDescription(t),
      dueDate       |-> daysFromNow(now, 7),
      priority      |-> "medium",
      estimatedTime |-> 60,
      completed     |-> FALSE,
      createdFrom   |-> "diary" ]

mockTasks(now) ==
    << [ id            |-> nowId(now) \o "_1",
         title         |-> "Complete Math homework Chapter 5",
         subject       |-> "Mathematics",
         description   |-> "Solve problems 1-20 on quadratic equations",
         dueDate       |-> daysFromNow(now, 2),
         priority      |-> "high",
         estimatedTime |-> 90,
         completed     |-> FALSE,
         createdFrom   |-> "diary" ],
       [ id            |-> nowId(now) \o "_2",
         title         |-> "Science lab report",
         subject       |-> "Science",
         description   |-> "Write conclusion for chemistry experiment",
         dueDate       |-> daysFromNow(now, 3),
         priority      |-> "medium",
         estimatedTime |-> 60,
         completed     |-> FALSE,
         createdFrom   |-> "diary" ] >>

\* the try block of extractTasksFromImage once the OCR has resolved with t
tasksOfText(t, extractedTasks, now) ==
    IF Len(extractedTasks) = 0 THEN <<fallbackTask(t, now)>> ELSE extractedTasks

\* extractTasksFromImage that lets the error of the OCR through: it
\* resolves with no task where the source resolves with the mock tasks
extractTasksFromImage_noCatch(ocr, now, table) ==
    IF ocr.rejected \/ trim(ocr.text) = "" THEN <<>>
    ELSE tasksOfText(ocr.text, parseText(ocr.text, now, table), now)

\* What extractTasksFromImage resolves with. A rejection of the OCR and the
\* error thrown for an empty text both end in the catch block.
extractTasksFromImage(ocr, now, table) ==
    IF ocr.rejected \/ trim(ocr.text) = "" THEN mockTasks(now)
    ELSE tasksOfText(ocr.text, parseText(ocr.text, now, table), now)

\* the DiaryPhoto of processDiaryPhoto
diaryPhotoOf(imageUrl, extractedTasks, now) ==
    [ id             |-> nowId(now),
      imageUrl       |-> imageUrl,
      capturedAt     |-> now,
      extractedTasks |-> extractedTasks,
      processed      |-> TRUE ]

\* what the form of TaskList hands to addTask: a task without id
Drafts ==
    { [ title         |-> "Revise vocabulary",
        subject       |-> "English",
        description   |-> "",
        dueDate       |-> DaysFromCivil(2026, 3, 10) * TicksPerDay,
        priority      |-> "medium",
        estimatedTime |-> 60,
        completed     |-> FALSE,
        createdFrom   |-> "manual" ] }

\* { ...task, id: Date.now().toString(), createdFrom: task.createdFrom || 'manual' }
newTask(task, now) ==
    [ id            |-> nowId(now),
      title         |-> task.title,
      subject       |-> task.subject,
      description   |-> task.description,
      dueDate       |-> task.dueDate,
      priority      |-> task.priority,
      estimatedTime |-> task.estimatedTime,
      completed     |-> task.completed,
      createdFrom   |-> IF task.createdFrom = "" THEN "manual" ELSE task.createdFrom ]

\* the prompts of the model: their lines have none of the words
\* parseDeadlinePrompt looks for, so every field of a task takes its default
Prompts == {"Buy graph paper"}

\* the tasks parseDeadlinePrompt makes of the lines ls, the first of them
\* being line `index` of the prompt
RECURSIVE promptTasks(_, _, _)
promptTasks(ls, index, now) ==
    IF ls = <<>> THEN <<>>
    ELSE (IF trim(ls[1]) = "" THEN <<>>
          ELSE << [ id            |-> "prompt_" \o ToString(now) \o "_" \o ToString(index),
                    title         |-> trim(ls[1]),
                    subject       |-> "General",
                    description   |-> "",
                    dueDate       |-> daysFromNow(now, 7),
                    priority      |-> "medium",
                    estimatedTime |-> 60,
                    completed     |-> FALSE,
                    createdFrom   |-> "prompt" ] >>)
         \o promptTasks(Tail(ls), IF trim(ls[1]) = "" THEN index ELSE index + 1, now)

parseDeadlinePrompt(prompt, now) == promptTasks(splitOn(prompt, "\n"), 0, now)

\* what the form of TaskList hands to updateTask
Updates == { [title |-> "Revise vocabulary list", priority |-> "high"] }

\* { ...task, ...updates }
merged(task, updates) ==
    [f \in DOMAIN task |-> IF f \in DOMAIN updates THEN updates[f] ELSE task[f]]

\* prev.map(task => task.id === taskId ? { ...task, ...updates } : task)
updated(prev, taskId, updates) ==
    [i \in 1..Len(prev) |->
        IF prev[i].id = taskId THEN merged(prev[i], updates) ELSE prev[i]]

\* prev.filter(task => task.id !== taskId)
RECURSIVE deleted(_, _)
deleted(prev, taskId) ==
    IF prev = <<>> THEN <<>>
    ELSE (IF prev[1].id # taskId THEN <<prev[1]>> ELSE <<>>)
         \o deleted(Tail(prev), taskId)

\* prev.map(task => task.id === taskId ? { ...task, completed: !task.completed } : task)
toggled(prev, taskId) ==
    [i \in 1..Len(prev) |->
        IF prev[i].id = taskId
        THEN [prev[i] EXCEPT !.completed = ~prev[i].completed] ELSE prev[i]]

\* the ids of the tasks of the store
StoredIds == {storedTasks[i].id : i \in 1..Len(storedTasks)}

\* the views of App
Views == {"dashboard", "camera", "deadline-prompt", "tasks", "calendar", "timer"}

---------------------------------------------------------------------------
(* useCamera, and the CameraCapture that mounts it *)

\* how many getUserMedia requests are in flight or resolved in a behaviour
MaxStarts == 3

\* a MediaStream as getUserMedia resolves with it: its tracks are live
newStream(orphan) == [live |-> TRUE, orphan |-> orphan]

\* streamRef.current.getTracks().forEach(track => track.stop()), where
\* streamRef.current is stream ref of ss, or null when ref is 0
stopped(ss, ref) ==
    [i \in 1..Len(ss) |-> IF i = ref THEN [ss[i] EXCEPT !.live = FALSE] ELSE ss[i]]

\* the streams once the component that obtained them has unmounted
orphaned(ss) == [i \in 1..Len(ss) |-> [ss[i] EXCEPT !.orphan = TRUE]]

---------------------------------------------------------------------------
(* StudyTimer *)

\* how many focus sessions are completed in a behaviour
MaxSessions == 2

durations == {15, 25, 30, 45, 60}

\* the seconds of a focus session of `minutes`, and those of a break
focusSeconds(minutes) == minutes * 60
breakSeconds == 5 * 60

---------------------------------------------------------------------------
(* The state machine *)

\* how many parseText calls a parser serves in a behaviour
MaxCalls == 2

\* the texts of the calls that are counted
CallTexts == ExampleTexts \cup {"Math homework due tomorrow", "Essay due next monday"}

appVars == <<storeVars, currentView, cameraVars, timerVars>>

Init ==
    /\ clock \in StartTimes
    /\ timeKeywords = timeKeywordsAt(clock)
    /\ constructedOn = DayOf(clock)
    /\ called = FALSE
    /\ text = ""
    /\ lines = <<>>
    /\ taskInfos = <<>>
    /\ tasks = <<>>
    /\ calls = 0
    /\ storedTasks = <<>>
    /\ diaryPhotos = <<>>
    /\ processing = <<>>
    /\ currentView = "dashboard"
    /\ streams = <<>>
    /\ streamRef = 0
    /\ pendingStarts = 0
    /\ orphanStarts = 0
    /\ isRunning = FALSE
    /\ timeLeft = focusSeconds(25)
    /\ isBreak = FALSE
    /\ completedSessions = 0
    /\ selectedDuration = 25

\* time passes (parseText runs to completion: no time is modelled
\* between the clock reading of a call and its return)
Tick ==
    /\ ~called
    /\ \E start \in StartTimes : clock >= start /\ clock < start + MaxTicks
    /\ clock' = clock + 1
    /\ UNCHANGED <<timeKeywords, constructedOn, called, text, lines, taskInfos, tasks>>
    /\ UNCHANGED <<calls, appVars>>

\* useTasks runs again (a render): const taskParser = new TaskParser()
Render ==
    /\ ~called
    /\ timeKeywords' = timeKeywordsAt(clock)
    /\ constructedOn' = DayOf(clock)
    /\ calls' = 0
    /\ UNCHANGED <<clock, called, text, lines, taskInfos, tasks>>
    /\ UNCHANGED appVars

\* parseText that numbers the tasks on from the calls the parser has served
ParseText_numberingOn(t) ==
    /\ ~called
    /\ called' = TRUE
    /\ text' = t
    /\ lines' = preprocessText(t)
    /\ taskInfos' = taskInfosOf(lines', 1, clock, timeKeywords)
    /\ tasks' = parseLines(lines', 1, clock + calls, timeKeywords)
    /\ UNCHANGED <<clock, timeKeywords, constructedOn>>
    /\ UNCHANGED appVars

\* taskParser.parseText(t), on the parser the hook holds
ParseText(t) ==
    /\ ~called
    /\ called' = TRUE
    /\ text' = t
    /\ lines' = preprocessText(t)
    /\ taskInfos' = taskInfosOf(lines', 1, clock, timeKeywords)
    /\ tasks' = parseText(t, clock, timeKeywords)
    /\ UNCHANGED <<clock, timeKeywords, constructedOn>>
    /\ UNCHANGED appVars

\* a parseText call, counted
Call(t) ==
    /\ calls < MaxCalls
    /\ ParseText(t)
    /\ calls' = calls + 1

\* the caller takes the result of the call
Return ==
    /\ called
    /\ called' = FALSE
    /\ text' = ""
    /\ lines' = <<>>
    /\ taskInfos' = <<>>
    /\ tasks' = <<>>
    /\ UNCHANGED <<clock, timeKeywords, constructedOn>>
    /\ UNCHANGED <<calls, appVars>>

Next ==
    \/ Tick
    \/ Render
    \/ \E t \in Texts : ParseText(t) /\ UNCHANGED calls
    \/ Return

Spec == Init /\ [][Next]_vars

ParserNext ==
    \/ Tick
    \/ Render
    \/ \E t \in CallTexts : Call(t)
    \/ Return

ParserSpec == Init /\ [][ParserNext]_vars

---------------------------------------------------------------------------
(* The actions of App and useTasks *)

\* Navigation, Dashboard and the Back buttons: setCurrentView(view).
\* Leaving the camera view unmounts CameraCapture, which has no cleanup
\* effect: the streams stay as they are, the requests in flight go on, and
\* the next mount has a hook of its own, whose streamRef.current is null.
Navigate(view) ==
    /\ view # currentView
    /\ currentView' = view
    /\ IF currentView = "camera"
       THEN /\ streams' = orphaned(streams)
            /\ streamRef' = 0
            /\ pendingStarts' = 0
            /\ orphanStarts' = orphanStarts + pendingStarts
       ELSE UNCHANGED cameraVars
    /\ UNCHANGED <<parserVars, calls, storeVars, timerVars>>

\* processDiaryPhoto(imageUrl) up to its await: the OCR is asked
ProcessDiaryPhoto(imageUrl) ==
    /\ Len(diaryPhotos) + Len(processing) < MaxPhotos
    /\ processing' = Append(processing, imageUrl)
    /\ UNCHANGED <<parserVars, calls, storedTasks, diaryPhotos, currentView,
                   cameraVars, timerVars>>

\* CameraCapture calls onCapture: handleCameraCapture(imageUrl) up to its await
HandleCameraCapture(imageUrl) ==
    /\ currentView = "camera"
    /\ ProcessDiaryPhoto(imageUrl)

\* The OCR of call i has settled: extractTasksFromImage resolves with
\* extractedTasks, processDiaryPhoto appends its photo and the tasks, and
\* handleCameraCapture goes on to setCurrentView('tasks'). Leaving the
\* camera view unmounts CameraCapture as in Navigate.
Processed(i, extractedTasks) ==
    /\ processing' = SubSeq(processing, 1, i - 1)
                     \o SubSeq(processing, i + 1, Len(processing))
    /\ diaryPhotos' = Append(diaryPhotos,
                             diaryPhotoOf(processing[i], extractedTasks, clock))
    /\ storedTasks' = storedTasks \o extractedTasks
    /\ currentView' = "tasks"
    /\ IF currentView = "camera"
       THEN /\ streams' = orphaned(streams)
            /\ streamRef' = 0
            /\ pendingStarts' = 0
            /\ orphanStarts' = orphanStarts + pendingStarts
       ELSE UNCHANGED cameraVars
    /\ UNCHANGED <<parserVars, calls, timerVars>>

FinishProcess ==
    \E i \in 1..Len(processing) :
        Processed(i, extractTasksFromImage(ocrResult(processing[i]), clock, timeKeywords))

\* addTask(task)
AddTask(task) ==
    /\ Len(storedTasks) < MaxStored
    /\ storedTasks' = Append(storedTasks, newTask(task, clock))
    /\ UNCHANGED <<parserVars, calls, diaryPhotos, processing, currentView,
                   cameraVars, timerVars>>

\* DeadlinePrompt calls onTasksGenerated: handleDeadlineTasksGenerated, which
\* calls addMultipleTasks(newTasks) and setCurrentView('tasks')
AddMultipleTasks(prompt) ==
    /\ Len(storedTasks) < MaxStored
    /\ storedTasks' = storedTasks \o parseDeadlinePrompt(prompt, clock)
    /\ currentView' = "tasks"
    /\ UNCHANGED <<parserVars, calls, diaryPhotos, processing, cameraVars, timerVars>>

\* updateTask(taskId, updates), for a task shown in the list
UpdateTask(taskId, updates) ==
    /\ storedTasks' = updated(storedTasks, taskId, updates)
    /\ UNCHANGED <<parserVars, calls, diaryPhotos, processing, currentView,
                   cameraVars, timerVars>>

\* deleteTask(taskId), for a task shown in the list
DeleteTask(taskId) ==
    /\ storedTasks' = deleted(storedTasks, taskId)
    /\ UNCHANGED <<parserVars, calls, diaryPhotos, processing, currentView,
                   cameraVars, timerVars>>

\* toggleTaskCompletion(taskId), for a task shown in the list
ToggleTaskCompletion(taskId) ==
    /\ storedTasks' = toggled(storedTasks, taskId)
    /\ UNCHANGED <<parserVars, calls, diaryPhotos, processing, currentView,
                   cameraVars, timerVars>>

\* the calls of the hook, in any order
StoreNext ==
    \/ Tick
    \/ \E imageUrl \in {"blurred.jpg", "homework.jpg"} : ProcessDiaryPhoto(imageUrl)
    \/ FinishProcess
    \/ \E task \in Drafts : AddTask(task)
    \/ \E prompt \in Prompts : AddMultipleTasks(prompt)
    \/ \E taskId \in StoredIds : \E updates \in Updates : UpdateTask(taskId, updates)
    \/ \E taskId \in StoredIds : DeleteTask(taskId)
    \/ \E taskId \in StoredIds : ToggleTaskCompletion(taskId)

StoreSpec == Init /\ [][StoreNext]_vars

\* the diary photos taken in the camera view; the views other than the
\* camera view take no part in it, the dashboard stands for them
PhotoNext ==
    \/ Tick
    \/ \E view \in {"dashboard", "camera"} : Navigate(view)
    \/ \E imageUrl \in Images : HandleCameraCapture(imageUrl)
    \/ FinishProcess
    \/ \E task \in Drafts : AddTask(task)

PhotoSpec == Init /\ [][PhotoNext]_vars

---------------------------------------------------------------------------
(* The actions of CameraCapture and useCamera *)

\* startCamera() up to its await: getUserMedia is asked, unless
\* streamRef.current is set
StartCamera ==
    /\ currentView = "camera"
    /\ streamRef = 0
    /\ Len(streams) + pendingStarts + orphanStarts < MaxStarts
    /\ pendingStarts' = pendingStarts + 1
    /\ UNCHANGED <<parserVars, calls, storeVars, currentView, streams, streamRef,
                   orphanStarts, timerVars>>

\* getUserMedia resolves for a startCamera of the mounted hook
StreamObtained ==
    /\ pendingStarts > 0
    /\ pendingStarts' = pendingStarts - 1
    /\ streams' = Append(streams, newStream(FALSE))
    /\ streamRef' = Len(streams) + 1
    /\ UNCHANGED <<parserVars, calls, storeVars, currentView, orphanStarts, timerVars>>

\* getUserMedia rejects for a startCamera of the mounted hook
StreamRefused ==
    /\ pendingStarts > 0
    /\ pendingStarts' = pendingStarts - 1
    /\ UNCHANGED <<parserVars, calls, storeVars, currentView, streams, streamRef,
                   orphanStarts, timerVars>>

\* getUserMedia resolves for a startCamera of a hook whose component has
\* unmounted: the stream is assigned to the streamRef of that hook
OrphanStreamObtained ==
    /\ orphanStarts > 0
    /\ orphanStarts' = orphanStarts - 1
    /\ streams' = Append(streams, newStream(TRUE))
    /\ UNCHANGED <<parserVars, calls, storeVars, currentView, streamRef,
                   pendingStarts, timerVars>>

\* getUserMedia rejects for a startCamera of such a hook
OrphanStreamRefused ==
    /\ orphanStarts > 0
    /\ orphanStarts' = orphanStarts - 1
    /\ UNCHANGED <<parserVars, calls, storeVars, currentView, streams, streamRef,
                   pendingStarts, timerVars>>

\* stopCamera(), as handleCapture and handleRetake call it
StopCamera ==
    /\ currentView = "camera"
    /\ streamRef # 0
    /\ streams' = stopped(streams, streamRef)
    /\ streamRef' = 0
    /\ UNCHANGED <<parserVars, calls, storeVars, currentView, pendingStarts,
                   orphanStarts, timerVars>>

\* handleBack(): stopCamera(), then onBack(), which is
\* setCurrentView('dashboard') and unmounts the component
HandleBack ==
    /\ currentView = "camera"
    /\ streams' = orphaned(stopped(streams, streamRef))
    /\ streamRef' = 0
    /\ pendingStarts' = 0
    /\ orphanStarts' = orphanStarts + pendingStarts
    /\ currentView' = "dashboard"
    /\ UNCHANGED <<parserVars, calls, storeVars, timerVars>>

CameraNext ==
    \/ \E view \in Views : Navigate(view)
    \/ StartCamera
    \/ StreamObtained
    \/ StreamRefused
    \/ OrphanStreamObtained
    \/ OrphanStreamRefused
    \/ StopCamera
    \/ HandleBack

CameraSpec == Init /\ [][CameraNext]_vars

---------------------------------------------------------------------------
(* The actions of StudyTimer *)

\* toggleTimer(): setIsRunning(!isRunning)
ToggleTimer ==
    /\ isRunning' = ~isRunning
    /\ UNCHANGED <<timeLeft, isBreak, completedSessions, selectedDuration>>
    /\ UNCHANGED <<parserVars, calls, storeVars, currentView, cameraVars>>

\* the interval callback with the test prev <= 0
IntervalTick_expiresAtZero ==
    /\ isRunning /\ timeLeft > 0
    /\ (timeLeft <= 0 /\ ~isBreak) => completedSessions < MaxSessions
    /\ IF timeLeft <= 0
       THEN /\ isRunning' = FALSE
            /\ IF ~isBreak
               THEN /\ completedSessions' = completedSessions + 1
                    /\ isBreak' = TRUE
                    /\ timeLeft' = breakSeconds
               ELSE /\ isBreak' = FALSE
                    /\ timeLeft' = focusSeconds(selectedDuration)
                    /\ UNCHANGED completedSessions
       ELSE /\ timeLeft' = timeLeft - 1
            /\ UNCHANGED <<isRunning, isBreak, completedSessions>>
    /\ UNCHANGED selectedDuration
    /\ UNCHANGED <<parserVars, calls, storeVars, currentView, cameraVars>>

\* The callback of the interval the effect sets while isRunning && timeLeft > 0:
\* setTimeLeft(prev => ...), a second after the last change of the state
IntervalTick ==
    /\ isRunning /\ timeLeft > 0
    /\ (timeLeft <= 1 /\ ~isBreak) => completedSessions < MaxSessions
    /\ IF timeLeft <= 1
       THEN /\ isRunning' = FALSE
            /\ IF ~isBreak
               THEN /\ completedSessions' = completedSessions + 1
                    /\ isBreak' = TRUE
                    /\ timeLeft' = breakSeconds
               ELSE /\ isBreak' = FALSE
                    /\ timeLeft' = focusSeconds(selectedDuration)
                    /\ UNCHANGED completedSessions
       ELSE /\ timeLeft' = timeLeft - 1
            /\ UNCHANGED <<isRunning, isBreak, completedSessions>>
    /\ UNCHANGED selectedDuration
    /\ UNCHANGED <<parserVars, calls, storeVars, currentView, cameraVars>>

\* resetTimer()
ResetTimer ==
    /\ isRunning' = FALSE
    /\ isBreak' = FALSE
    /\ timeLeft' = focusSeconds(selectedDuration)
    /\ UNCHANGED <<completedSessions, selectedDuration>>
    /\ UNCHANGED <<parserVars, calls, storeVars, currentView, cameraVars>>

\* a button of the duration selector, which is shown while
\* !isRunning && !isBreak
SelectDuration(duration) ==
    /\ ~isRunning /\ ~isBreak
    /\ selectedDuration' = duration
    /\ timeLeft' = focusSeconds(duration)
    /\ UNCHANGED <<isRunning, isBreak, completedSessions>>
    /\ UNCHANGED <<parserVars, calls, storeVars, currentView, cameraVars>>

TimerNext ==
    \/ ToggleTimer
    \/ IntervalTick
    \/ ResetTimer
    \/ \E duration \in durations : SelectDuration(duration)

TimerSpec == Init /\ [][TimerNext]_vars

\* The timer left to itself once a break is loaded: the user presses no
\* button during a break.
UnattendedNext ==
    \/ IntervalTick
    \/ ~isBreak /\ ToggleTimer
    \/ ~isBreak /\ ResetTimer
    \/ \E duration \in durations : SelectDuration(duration)

\* The browser runs the callback of an interval that stays set: the tick is
\* weakly fair. Nothing makes the user press a button.
TimerLiveSpec == Init /\ [][UnattendedNext]_vars /\ WF_vars(IntervalTick)


-----------------------------------------------------------------------------
(* Properties of a call of parseText. In a state where `called` holds,     *)
(* `text` is the argument of the call, `tasks` its return, `clock` the     *)
(* reading of new Date() during the call, `lines` the lines the call       *)
(* examined and `timeKeywords` the table of the TaskParser the call ran    *)
(* on.                                                                      *)

\* the lines of the call that reach isTaskLine
CallLines == lines

\* whether the lower-cased line l includes one of the indicators
includesIndicator(l) == \E k \in 1..Len(taskIndicators) : includes(l, taskIndicators[k])

hasIndicator(line) == includesIndicator(toLowerCase(line))

RECURSIVE indicatorLines(_)
indicatorLines(ls) ==
    IF ls = <<>> THEN <<>>
    ELSE (IF hasIndicator(ls[1]) THEN <<ls[1]>> ELSE <<>>) \o indicatorLines(Tail(ls))

\* the lines of the call that contain a task indicator, in order
KeywordLines == indicatorLines(CallLines)

\* the lower-cased line the k-th task of the call is made of
LineOf(k) == toLowerCase(KeywordLines[k])

\* the k-th task of the call has a line
Paired(k) == k <= Len(KeywordLines)

\* the indices of the phrases of the parser's table that occur in line l
PhraseHits(l) == {k \in 1..Len(timeKeywords) : includes(l, timeKeywords[k].keyword)}

\* the phrase of the table that is declared first among those occurring in l
FirstPhrase(l) == timeKeywords[Least(PhraseHits(l))]

HasInDays(l) == inDaysMatch(l) # NoMatch

\* the indices of the date patterns that match l
PatternHits(l) == {p \in 1..Len(datePatterns) : datePatternMatch(l, datePatterns[p]) # NoMatch}

\* month A, day B, year Y or the year of the clock, of the p-th date pattern
DateRead(l, p) ==
    LET m == datePatternMatch(l, datePatterns[p])
    IN  MakeDate(IF m[3] # "" THEN parseInt(m[3]) ELSE getFullYear(clock),
                 parseInt(m[1]) - 1, parseInt(m[2]))

\* the date patterns whose date is strictly after the clock reading
FuturePatterns(l) == {p \in PatternHits(l) : DateGreater(DateRead(l, p), clock)}

Days(n) == n * TicksPerDay

-----------------------------------------------------------------------------
\* the lines C1 speaks of: the text split at the runs of line breaks, each
\* line cleaned and trimmed, lines of three characters or fewer dropped
LinesOfText(t) ==
    LET split == splitLines(t)
    IN  filterShortLines([i \in 1..Len(split) |-> cleanText(split[i])])

\* C1: parseText applied to a text of k lines separated by line breaks, each
\* longer than 3 characters and each containing a task keyword, returns
\* exactly k tasks, one per line, in the order of the lines.
C1_OneTaskPerLine ==
    called =>
        LET raw == LinesOfText(text)
        IN  (\A i \in 1..Len(raw) : hasIndicator(raw[i]))
            => Len(tasks) = Len(raw)

-----------------------------------------------------------------------------
TaskFields == {"id", "title", "subject", "description", "dueDate", "priority",
               "estimatedTime", "completed", "createdFrom"}

Populated(t) ==
    /\ DOMAIN t = TaskFields
    /\ t.id # ""
    /\ t.title # ""
    /\ t.subject # ""
    /\ t.description # ""
    /\ t.dueDate \in Int
    /\ t.priority \in {"low", "medium", "high"}
    /\ t.estimatedTime \in Int /\ t.estimatedTime # 0
    /\ t.completed = FALSE
    /\ t.createdFrom = "diary"

\* C2: every preprocessed line of length > 3 for which isTaskLine is true
\* yields exactly one task, never null, with a non-empty title and every
\* other field populated: subject, description, dueDate, priority in
\* {low, medium, high}, estimatedTime, completed = false, createdFrom = diary.
C2_Totality ==
    called => /\ \A i \in 1..Len(CallLines) : Len(CallLines[i]) > 3
              /\ Len(tasks) = Len(KeywordLines)
              /\ \A k \in 1..Len(tasks) : Populated(tasks[k])

\* a task made of a line that names none of the subjects: its subject is the
\* default, and every other field is populated
C2_Witness ==
    called /\ Len(KeywordLines) = 1 /\ Len(tasks) = 1
           /\ Populated(tasks[1])
           /\ tasks[1].subject = "General"
           /\ tasks[1].priority = "medium"
           /\ \A s \in 1..Len(subjects) :
                  ~includes(toLowerCase(KeywordLines[1]), subjects[s])

-----------------------------------------------------------------------------
\* C3: a line is a task line exactly when its lower-cased text contains at
\* least one of the 18 indicator keywords as a substring, also inside a
\* longer word; a line with none of them, such as "Clean your room", yields
\* no task.
C3_SubstringIndicators ==
    /\ Len(taskIndicators) = 18
    /\ called =>
        /\ Len(tasks) = Cardinality({i \in 1..Len(CallLines) : hasIndicator(CallLines[i])})
        /\ (tasks # <<>> <=> \E i \in 1..Len(CallLines) : hasIndicator(CallLines[i]))
        /\ (text = "Clean your room" => tasks = <<>>)

\* "Buy bread" holds the keyword "read" only inside the word "bread"
C3_Witness ==
    called /\ text = "Buy bread" /\ Len(tasks) = 1
           /\ ~(\E w \in 1..Len(splitOn("buy bread", " ")) :
                   \E k \in 1..Len(taskIndicators) :
                       splitOn("buy bread", " ")[w] = taskIndicators[k])

-----------------------------------------------------------------------------
C4_Rule(t, l) ==
    /\ PhraseHits(l) # {}
       => t.dueDate = AddDays(clock, FirstPhrase(l).days)
    /\ (PhraseHits(l) = {} /\ HasInDays(l))
       => t.dueDate = AddDays(clock, parseInt(inDaysMatch(l)[1]))

\* C4: the rules of extractDueDate apply in strict priority order. A line
\* with a relative keyword phrase gets now + the offset of the phrase
\* declared first among those occurring, also when it contains "in N days"
\* or a numeric date ("Essay due 12/25 next week" gives now + 7 days); a
\* line with no keyword phrase but "in N day(s)" gets now + N days, also
\* when it contains a numeric date.
C4_RulePriority ==
    /\ called => \A k \in 1..Len(tasks) :
                     Paired(k) /\ C4_Rule(tasks[k], LineOf(k))
    /\ (called /\ text = "Essay due 12/25 next week")
       => Len(tasks) = 1 /\ tasks[1].dueDate = clock + Days(7)

C4_WitnessCase(t, l) ==
    /\ PhraseHits(l) # {}
    /\ FuturePatterns(l) # {}
    /\ t.dueDate = AddDays(clock, FirstPhrase(l).days)
    /\ t.dueDate # DateRead(l, Least(FuturePatterns(l)))

\* a line with a keyword phrase and a numeric date that is in the future
C4_Witness ==
    called /\ \E k \in 1..Len(tasks) :
                  Paired(k) /\ C4_WitnessCase(tasks[k], LineOf(k))

-----------------------------------------------------------------------------
C5_Rule(t, l) ==
    ~includes(l, "today")
    => /\ includes(l, "day after tomorrow") => t.dueDate = clock + Days(2)
       /\ (includes(l, "tomorrow") /\ ~includes(l, "day after tomorrow"))
          => t.dueDate = clock + Days(1)

\* C5: a task line containing "day after tomorrow" gets dueDate = now + 2
\* days, and a line containing "tomorrow" but not "day after tomorrow" gets
\* now + 1 day.
C5_DayAfterTomorrow ==
    called => \A k \in 1..Len(tasks) :
                  Paired(k) /\ C5_Rule(tasks[k], LineOf(k))

-----------------------------------------------------------------------------
C6_Strict(t, l) == PhraseHits(l) # {} => DateGreater(t.dueDate, clock)

\* C6 as stated: a dueDate derived from a relative keyword phrase is
\* strictly later than the clock reading taken by extractDueDate.
C6_KeywordStrictlyFuture ==
    called => \A k \in 1..Len(tasks) :
                  Paired(k) /\ C6_Strict(tasks[k], LineOf(k))

C6_Rule(t, l) ==
    PhraseHits(l) # {}
    => IF FirstPhrase(l).keyword = "today"
       THEN t.dueDate = clock
       ELSE DateGreater(t.dueDate, clock)

\* C6 amended: a dueDate derived from a relative keyword phrase is never
\* earlier than the clock reading; it equals the clock reading when the
\* phrase declared first among those occurring is "today", and is strictly
\* later for every other phrase.
C6_KeywordNotPast ==
    called => \A k \in 1..Len(tasks) :
                  Paired(k) /\ C6_Rule(tasks[k], LineOf(k))

C6_WitnessCase(t, l) ==
    PhraseHits(l) # {} /\ FirstPhrase(l).keyword = "today" /\ t.dueDate = clock

\* a task whose due date comes from the phrase "today"
C6_Witness ==
    called /\ \E k \in 1..Len(tasks) :
                  Paired(k) /\ C6_WitnessCase(tasks[k], LineOf(k))

-----------------------------------------------------------------------------
\* getDay() of the weekday a phrase "next <weekday>" names
WeekdayOfPhrase ==
    [ p \in {"next sunday", "next monday", "next tuesday", "next wednesday",
             "next thursday", "next friday", "next saturday"} |->
        CASE p = "next sunday"    -> 0
          [] p = "next monday"    -> 1
          [] p = "next tuesday"   -> 2
          [] p = "next wednesday" -> 3
          [] p = "next thursday"  -> 4
          [] p = "next friday"    -> 5
          [] p = "next saturday"  -> 6 ]

C7_Rule(t, l) ==
    (PhraseHits(l) # {} /\ FirstPhrase(l).keyword \in DOMAIN WeekdayOfPhrase)
    => LET w == WeekdayOfPhrase[FirstPhrase(l).keyword]
           d == (DayOf(t.dueDate) - DayOf(clock))
       IN  /\ 1 <= d /\ d <= 7
           /\ getDay(t.dueDate) = w
           /\ getDay(clock) = w => d = 7

\* C7: a line containing "next <w>" and no earlier-declared phrase gets a
\* due date d days after the day on which extractDueDate runs, with
\* 1 <= d <= 7, the resulting day on weekday w, and d = 7 when the current
\* day is itself w; for every pair of construction day and call day.
C7_NextWeekday ==
    called => \A k \in 1..Len(tasks) :
                  Paired(k) /\ C7_Rule(tasks[k], LineOf(k))

-----------------------------------------------------------------------------
C8_Rule(t, l) ==
    (PhraseHits(l) = {} /\ ~HasInDays(l) /\ PatternHits(l) # {})
    => LET D == DateRead(l, Least(PatternHits(l)))
       IN  /\ DateGreater(D, clock) => t.dueDate = D
           /\ t.dueDate = D => DateGreater(D, clock)

C8_WitnessCase(t, l) ==
    /\ PhraseHits(l) = {} /\ ~HasInDays(l)
    /\ includes(l, "chapter 3-5")
    /\ Least(PatternHits(l)) = 2
    /\ t.dueDate = DateRead(l, 2)
    /\ t.dueDate = Days(DaysFromCivil(2026, 3, 5))

-----------------------------------------------------------------------------
C9_FirstRejected(l) ==
    /\ PhraseHits(l) = {} /\ ~HasInDays(l) /\ PatternHits(l) # {}
    /\ ~DateGreater(DateRead(l, Least(PatternHits(l))), clock)

C9_Direct(t, l) == C9_FirstRejected(l) => t.dueDate = AddDays(clock, 7)

\* C9 as stated: when the first date pattern that matches the line yields a
\* date that is not strictly in the future, extractDueDate returns now + 7
\* days directly, without trying the remaining patterns.
C9_FirstPatternOnly ==
    called => \A k \in 1..Len(tasks) :
                  Paired(k) /\ C9_Direct(tasks[k], LineOf(k))

C9_Rule(t, l) ==
    C9_FirstRejected(l)
    => IF FuturePatterns(l) # {}
       THEN t.dueDate = DateRead(l, Least(FuturePatterns(l)))
       ELSE t.dueDate = AddDays(clock, 7)

\* C9 amended: when the first date pattern that matches the line yields a
\* date that is not strictly in the future, extractDueDate goes on to the
\* remaining patterns in the order M/D, M-D, M.D and returns the date of the
\* first one that is strictly in the future; it returns now + 7 days only
\* when no pattern yields such a date.
C9_LaterPatternsTried ==
    called => \A k \in 1..Len(tasks) :
                  Paired(k) /\ C9_Rule(tasks[k], LineOf(k))

C9_WitnessCase(t, l) ==
    /\ C9_FirstRejected(l)
    /\ FuturePatterns(l) # {}
    /\ t.dueDate = DateRead(l, Least(FuturePatterns(l)))
    /\ t.dueDate # AddDays(clock, 7)

\* a line whose M-D date is past and whose M.D date is in the future
C9_Witness ==
    called /\ \E k \in 1..Len(tasks) :
                  Paired(k) /\ C9_WitnessCase(tasks[k], LineOf(k))

-----------------------------------------------------------------------------
C10_Rule(t, l) ==
    /\ t.dueDate \in Int
    /\ ~DateLess(t.dueDate, clock)
    /\ (PhraseHits(l) = {} /\ ~HasInDays(l) /\ FuturePatterns(l) = {})
       => t.dueDate = clock + Days(7)

\* C10: every task produced by parseText has a dueDate, which is never
\* earlier than the clock reading at extraction, whichever rule produced
\* it; with no relative keyword phrase, no "in N days" phrase and no
\* accepted numeric date, dueDate is exactly now + 7 days.
C10_DueDateNotPast ==
    called => \A k \in 1..Len(tasks) :
                  Paired(k) /\ C10_Rule(tasks[k], LineOf(k))

C10_WitnessCase(t, l) ==
    /\ PhraseHits(l) = {} /\ ~HasInDays(l)
    /\ PatternHits(l) # {} /\ FuturePatterns(l) = {}
    /\ t.dueDate = clock + Days(7)

\* a line whose only temporal cue is a numeric date that is not accepted
C10_Witness ==
    called /\ \E k \in 1..Len(tasks) :
                  Paired(k) /\ C10_WitnessCase(tasks[k], LineOf(k))

-----------------------------------------------------------------------------
(* Properties of the fields of a task. taskInfos[k] is the `taskInfo` that  *)
(* parseTaskLine computed for the line of the k-th task.                    *)

\* the entries of `subjects` as the claim's title-cased names, in list order
SubjectNames ==
    <<"Mathematics", "Math", "Maths", "Algebra", "Geometry", "Calculus",
      "Science", "Physics", "Chemistry", "Biology", "Bio",
      "English", "Literature", "Writing", "Essay", "Reading",
      "History", "Social Studies", "Geography", "Civics",
      "Art", "Drawing", "Painting", "Music",
      "Computer Science", "Programming", "Coding",
      "Physical Education", "Pe", "Sports",
      "French", "Spanish", "German", "Language">>

\* the indices of the entries of `subjects` that occur in line l
SubjectHits(l) == {i \in 1..Len(subjects) : includes(l, subjects[i])}

C11_Rule(info, t, l) ==
    /\ info.subject = IF SubjectHits(l) = {} THEN "General"
                      ELSE SubjectNames[Least(SubjectHits(l))]
    /\ t.subject = info.subject

\* C11: extractSubject returns the title-cased form of the first keyword, in
\* the declared order of the subjects list, that occurs as a substring of the
\* lower-cased line, and "General" when none occurs; so every task's subject
\* is "General" or the title-cased form of a list entry ("Math homework due
\* tomorrow chapter 5" gives "Math").
C11_FirstSubject ==
    /\ Len(SubjectNames) = Len(subjects)
    /\ \A i \in 1..Len(subjects) : toLowerCase(SubjectNames[i]) = subjects[i]
    /\ called => /\ Len(taskInfos) = Len(tasks)
                 /\ \A k \in 1..Len(tasks) :
                        Paired(k) /\ C11_Rule(taskInfos[k], tasks[k], LineOf(k))
    /\ (called /\ text = "Math homework due tomorrow chapter 5")
       => Len(tasks) = 1 /\ tasks[1].subject = "Math"

\* a line in which two entries of the list occur, with the subject of the
\* one declared first
C11_Witness ==
    called /\ \E k \in 1..Len(tasks) :
                  /\ Paired(k)
                  /\ Cardinality(SubjectHits(LineOf(k))) >= 2
                  /\ tasks[k].subject = SubjectNames[Least(SubjectHits(LineOf(k)))]

-----------------------------------------------------------------------------
\* whether a keyword of the group of priority p occurs in line l
PriorityHit(l, p) ==
    \E g \in 1..Len(priorityKeywords) :
        /\ priorityKeywords[g].priority = p
        /\ \E i \in 1..Len(priorityKeywords[g].keywords) :
               includes(l, priorityKeywords[g].keywords[i])

C12_Rule(info, t, l) ==
    /\ info.priority = IF PriorityHit(l, "high") THEN "high"
                       ELSE IF PriorityHit(l, "medium") THEN "medium"
                       ELSE IF PriorityHit(l, "low") THEN "low"
                       ELSE "medium"
    /\ t.priority = info.priority

\* C12: extractPriority returns 'high' if the line contains a high-group
\* keyword, otherwise 'medium' if it contains a medium-group keyword,
\* otherwise 'low' if it contains a low-group keyword, otherwise 'medium'
\* ("Math homework due tomorrow chapter 5" is 'high' through "due tomorrow").
C12_PriorityOrder ==
    /\ called => \A k \in 1..Len(tasks) :
                     Paired(k) /\ C12_Rule(taskInfos[k], tasks[k], LineOf(k))
    /\ (called /\ text = "Math homework due tomorrow chapter 5")
       => Len(tasks) = 1 /\ tasks[1].priority = "high"

\* a line with a medium-group and a low-group keyword and no high-group one
C12_Witness ==
    called /\ \E k \in 1..Len(tasks) :
                  /\ Paired(k)
                  /\ ~PriorityHit(LineOf(k), "high")
                  /\ PriorityHit(LineOf(k), "medium")
                  /\ PriorityHit(LineOf(k), "low")
                  /\ tasks[k].priority = "medium"

-----------------------------------------------------------------------------
HourUnits == {"hour", "hours", "hr", "hrs"}
MinuteUnits == {"minute", "minutes", "min", "mins"}

\* the value C13 gives for a line with no "N <unit>" occurrence
TimeByKeyword(l) ==
    IF includes(l, "test") \/ includes(l, "exam") THEN 120
    ELSE IF includes(l, "essay") \/ includes(l, "project") THEN 180
    ELSE IF includes(l, "read") THEN 45
    ELSE IF includes(l, "homework") \/ includes(l, "assignment") THEN 60
    ELSE IF includes(l, "lab") \/ includes(l, "experiment") THEN 90
    ELSE 60

C13_Rule(info, l) ==
    IF timeMatch(l) # NoMatch
    THEN /\ timeMatch(l)[2] \in HourUnits \cup MinuteUnits
         /\ timeMatch(l)[2] \in HourUnits
            => info.estimatedTime = parseInt(timeMatch(l)[1]) * 60
         /\ timeMatch(l)[2] \in MinuteUnits
            => info.estimatedTime = parseInt(timeMatch(l)[1])
    ELSE info.estimatedTime = TimeByKeyword(l)

\* C13: extractEstimatedTime returns, for the first "N <unit>" occurrence in
\* the line, N*60 when the unit is hour(s)/hr(s) and N when it is
\* minute(s)/min(s) ("Math test, 2 hours" gives 120, "Read 30 minutes" gives
\* 30); with no such occurrence it returns the first applicable value in the
\* order test/exam 120, essay/project 180, read 45, homework/assignment 60,
\* lab/experiment 90, and 60 when none applies.
C13_EstimatedTime ==
    /\ called => \A k \in 1..Len(taskInfos) :
                     Paired(k) /\ C13_Rule(taskInfos[k], LineOf(k))
    /\ (called /\ text = "Math test, 2 hours")
       => Len(taskInfos) = 1 /\ taskInfos[1].estimatedTime = 120
                             /\ tasks[1].estimatedTime = 120
    /\ (called /\ text = "Read 30 minutes")
       => Len(taskInfos) = 1 /\ taskInfos[1].estimatedTime = 30
                             /\ tasks[1].estimatedTime = 30

\* a line with two "N <unit>" occurrences, the first in hrs, whose time is
\* not the one its keywords would give
C13_Witness ==
    called /\ \E k \in 1..Len(taskInfos) :
                  /\ Paired(k)
                  /\ timeMatch(LineOf(k)) = <<"2", "hrs">>
                  /\ includes(LineOf(k), "20 min")
                  /\ taskInfos[k].estimatedTime = 120
                  /\ TimeByKeyword(LineOf(k)) # 120

-----------------------------------------------------------------------------
\* C14: every task produced by parseText has an estimatedTime that is a
\* positive integer number of minutes, never 0 or negative, also for lines
\* that state a quantity of 0 ("0 minutes", "0 hours").
C14_PositiveTime ==
    called => \A k \in 1..Len(tasks) :
                  tasks[k].estimatedTime \in Nat /\ tasks[k].estimatedTime >= 1

\* a line stating 0 minutes or 0 hours: extractEstimatedTime returns 0 and
\* the task gets the default
C14_Witness ==
    called /\ \E k \in 1..Len(tasks) :
                  /\ Paired(k)
                  /\ timeMatch(LineOf(k)) # NoMatch
                  /\ timeMatch(LineOf(k))[1] = "0"
                  /\ taskInfos[k].estimatedTime = 0
                  /\ tasks[k].estimatedTime = 60

-----------------------------------------------------------------------------
\* whether a keyword of the group of type ty occurs in line l
TypeHit(l, ty) ==
    \E g \in 1..Len(taskTypeKeywords) :
        /\ taskTypeKeywords[g].type = ty
        /\ \E i \in 1..Len(taskTypeKeywords[g].keywords) :
               includes(l, taskTypeKeywords[g].keywords[i])

TypeOrder == <<"test", "essay", "project", "homework", "reading", "lab">>

\* the types, by their place in TypeOrder, that have a keyword in line l
TypeHits(l) == {n \in 1..Len(TypeOrder) : TypeHit(l, TypeOrder[n])}

C15_Rule(info, l) ==
    info.taskType = IF TypeHits(l) = {} THEN "homework"
                    ELSE TypeOrder[Least(TypeHits(l))]

\* C15: extractTaskType returns the first type, in the order test, essay,
\* project, homework, reading, lab, one of whose keywords occurs as a
\* substring of the line, and 'homework' when no keyword of any group occurs.
C15_TaskTypeOrder ==
    /\ {taskTypeKeywords[g].type : g \in 1..Len(taskTypeKeywords)}
           = {TypeOrder[n] : n \in 1..Len(TypeOrder)}
    /\ called => \A k \in 1..Len(taskInfos) :
                     Paired(k) /\ C15_Rule(taskInfos[k], LineOf(k))

\* a line with keywords of two groups, typed by the first in the order
C15_Witness ==
    called /\ \E k \in 1..Len(taskInfos) :
                  /\ Paired(k)
                  /\ Cardinality(TypeHits(LineOf(k))) >= 2
                  /\ taskInfos[k].taskType = TypeOrder[Least(TypeHits(LineOf(k)))]

-----------------------------------------------------------------------------
\* C16: every task produced by parseText has a title of at least 1 and at
\* most 50 characters, for every task type and every line, including lines
\* whose chapter/pages/problems/exercises number or range is long.
C16_TitleLength ==
    called => \A k \in 1..Len(tasks) :
                  Len(tasks[k].title) >= 1 /\ Len(tasks[k].title) <= 50

-----------------------------------------------------------------------------
\* a word longer than 2 characters that is not in the stop-list
Meaningful(word) ==
    Len(word) > 2 /\ toLowerCase(word) \notin {"the", "and", "for", "due", "on"}

\* the first six meaningful words of the line, joined by single spaces
SixWords(line) ==
    LET kept == SelectSeq(splitOn(line, " "), Meaningful)
    IN  join(SubSeq(kept, 1, IF Len(kept) < 6 THEN Len(kept) ELSE 6), " ")

C17_Cut(title, s) ==
    IF Len(s) > 50
    THEN title = SubSeq(s, 1, 47) \o "..." /\ Len(title) = 50
    ELSE title = s

C17_Rule(info, t, line) ==
    info.taskType \in {"project", "lab"} => C17_Cut(t.title, SixWords(line))

\* C17: in the default branch (task types project and lab) the title is the
\* first six words of the line that are longer than 2 characters and not in
\* the stop-list {the, and, for, due, on}, joined by single spaces; when
\* that string is longer than 50 characters the title is its first 47
\* characters followed by "...", of length exactly 50, and otherwise it is
\* returned unchanged.
C17_Truncation ==
    called => \A k \in 1..Len(tasks) :
                  Paired(k) /\ C17_Rule(taskInfos[k], tasks[k], KeywordLines[k])

\* a lab line whose first six meaningful words take more than 50 characters
C17_Witness ==
    called /\ \E k \in 1..Len(tasks) :
                  /\ Paired(k)
                  /\ taskInfos[k].taskType = "lab"
                  /\ Len(SixWords(KeywordLines[k])) > 50
                  /\ Len(tasks[k].title) = 50
                  /\ SubSeq(tasks[k].title, 48, 50) = "..."

-----------------------------------------------------------------------------
C18_Rule(info, t, line) ==
    info.taskType = "reading"
    => LET chapter == numberMatch(line, "chapter", FALSE)
           pages   == numberMatch(line, "page", TRUE)
       IN  IF chapter # NoMatch
           THEN /\ t.title = "Read " \o info.subject \o " Chapter " \o chapter[1]
                /\ t.description = "Read chapter " \o chapter[1] \o " for "
                                       \o toLowerCase(info.subject)
           ELSE IF pages # NoMatch
           THEN /\ t.title = "Read " \o info.subject \o " Pages " \o pages[1]
                /\ t.description = "Read pages " \o pages[1] \o " for "
                                       \o toLowerCase(info.subject)
           ELSE /\ t.title = "Read " \o info.subject
                /\ t.description = line

\* C18: for a line of task type 'reading', with "chapter N" (N a number or a
\* dash-joined range, in any case) the title is "Read <Subject> Chapter N"
\* and the description "Read chapter N for <subject lower-cased>"; otherwise
\* with "page(s) N" the title is "Read <Subject> Pages N" with the matching
\* description; otherwise the title is "Read <Subject>" and the description
\* the raw line. "Read chapter 3-5 for history" is of type reading, with
\* "Chapter 3-5" in the title and "chapter 3-5" in the description.
C18_ReadingTitle ==
    /\ called => \A k \in 1..Len(tasks) :
                     Paired(k) /\ C18_Rule(taskInfos[k], tasks[k], KeywordLines[k])
    /\ (called /\ text = "Read chapter 3-5 for history")
       => /\ Len(tasks) = 1
          /\ taskInfos[1].taskType = "reading"
          /\ tasks[1].title = "Read History Chapter 3-5"
          /\ tasks[1].description = "Read chapter 3-5 for history"
    /\ (called /\ text = "Read pages 10-12 tonight")
       => /\ Len(tasks) = 1
          /\ tasks[1].title = "Read General Pages 10-12"
          /\ tasks[1].description = "Read pages 10-12 for general"

\* a reading line with a chapter and with pages: the chapter makes the title
C18_Witness ==
    called /\ text = "Read chapter 3 pages 10-12"
           /\ Len(tasks) = 1
           /\ taskInfos[1].taskType = "reading"
           /\ tasks[1].title = "Read General Chapter 3"
           /\ tasks[1].description = "Read chapter 3 for general"

-----------------------------------------------------------------------------
\* C19: for every input text, preprocessText applied to the newline-joined
\* output of preprocessText returns the same sequence of lines as the first
\* pass.
C19_PreprocessIdempotent ==
    called => preprocessText(join(lines, "\n")) = lines

\* a text that the first pass changes: a tab, runs of spaces, characters
\* that are not kept
C19_Witness ==
    called /\ text = " Math\thomework  @ due#tomorrow "
           /\ lines = <<"Math homework due tomorrow">>
           /\ preprocessText(join(lines, "\n")) = lines

-----------------------------------------------------------------------------
\* a non-empty text without a letter, a digit or white space
PunctuationOnly(t) ==
    /\ t # ""
    /\ \A i \in 1..Len(t) :
           CharAt(t, i) \notin (LowerSet \cup UpperSet \cup DigitSet \cup WhiteSet)

\* C20 as stated: for an input that is the empty string or consists only of
\* punctuation characters, of any length, preprocessText returns an empty
\* sequence, so isTaskLine is never invoked, and parseText returns no task.
C20_PunctuationAbsorbed ==
    (called /\ (text = "" \/ PunctuationOnly(text)))
    => lines = <<>> /\ taskInfos = <<>> /\ tasks = <<>>

\* C20 amended: for an input that is the empty string or consists only of
\* punctuation characters, parseText returns no task; preprocessText returns
\* an empty sequence when the cleaned text has at most 3 characters, and
\* otherwise returns the cleaned text as one line, which holds no task
\* indicator, so that isTaskLine is invoked on it and returns false.
C20_PunctuationNoTask ==
    (called /\ (text = "" \/ PunctuationOnly(text)))
    => /\ tasks = <<>> /\ taskInfos = <<>>
       /\ lines = IF Len(cleanText(text)) > 3 THEN <<cleanText(text)>> ELSE <<>>
       /\ \A i \in 1..Len(lines) : ~hasIndicator(lines[i])

\* five kept punctuation characters pass the length filter as a line
C20_Witness ==
    called /\ text = "!!!!!" /\ PunctuationOnly(text)
           /\ lines = <<"!!!!!">> /\ tasks = <<>>

---------------------------------------------------------------------------
(* C21: the ids of the tasks of one call *)

\* the ids of the tasks ts are pairwise distinct
DistinctIds(ts) == \A i, j \in 1..Len(ts) : i # j => ts[i].id # ts[j].id

---------------------------------------------------------------------------
(* C22: the ids of the tasks of the store *)

\* C22: no two tasks of the store have the same id.
C22_UniqueIds == DistinctIds(storedTasks)

---------------------------------------------------------------------------
(* C23: the fallback task *)

\* a processDiaryPhoto call completes in this step
PhotoStep == Len(diaryPhotos') = Len(diaryPhotos) + 1

\* the first 200 characters of t, followed by '...' when t is longer
C23_Description(t) == IF Len(t) > 200 THEN SubSeq(t, 1, 200) \o "..." ELSE t

C23_IsFallback(extractedTasks, t) ==
    /\ Len(extractedTasks) = 1
    /\ extractedTasks[1].title = "Review extracted content"
    /\ extractedTasks[1].subject = "General"
    /\ extractedTasks[1].priority = "medium"
    /\ extractedTasks[1].estimatedTime = 60
    /\ extractedTasks[1].completed = FALSE
    /\ extractedTasks[1].createdFrom = "diary"
    /\ extractedTasks[1].description = C23_Description(t)

C23_Rule(extractedTasks, t, parsed) ==
    IF parsed = <<>> THEN C23_IsFallback(extractedTasks, t)
    ELSE extractedTasks = parsed

C23_PhotoRule(photo, ocr) ==
    (~ocr.rejected /\ ocr.text # "")
    => C23_Rule(photo.extractedTasks, ocr.text, parseText(ocr.text, clock, timeKeywords))

\* C23: when the OCR of a call resolved with a non-empty text, the tasks
\* extractTasksFromImage returned (kept in the photo of the call) are the
\* one fallback task when parseText returns no task of the text, and what
\* parseText returns otherwise.
C23_FallbackTask ==
    [][PhotoStep =>
         C23_PhotoRule(diaryPhotos'[Len(diaryPhotos')],
                       ocrResult(diaryPhotos'[Len(diaryPhotos')].imageUrl))]_vars

\* the photo of a text of 201 characters has the fallback task, whose
\* description is 200 characters and the dots; that of a text of 200
\* characters has the text
C23_Witness ==
    \E k \in 1..Len(diaryPhotos) :
        /\ diaryPhotos[k].imageUrl = "letter.jpg"
        /\ diaryPhotos[k].extractedTasks[1].title = "Review extracted content"
        /\ Len(diaryPhotos[k].extractedTasks[1].description) = 203

---------------------------------------------------------------------------
(* C24: parseText keeps no state *)

\* the result of the call is that of a parser constructed on the same day
\* which has served no call
C24_SameResult ==
    called => /\ timeKeywords = timeKeywordsAt(constructedOn * TicksPerDay)
              /\ tasks = parseText(text, clock, timeKeywordsAt(constructedOn * TicksPerDay))

\* a call and its return leave the table of the time keywords as it is;
\* the other tables are constants of the model, as no statement of the
\* source assigns them
C24_TablesKept == (called' # called) => timeKeywords' = timeKeywords

---------------------------------------------------------------------------
(* C25, C26: the camera streams *)

\* C25: no stream has live tracks while a view other than the camera view
\* is shown.
C25_StoppedWhenLeft ==
    currentView # "camera" => \A i \in 1..Len(streams) : ~streams[i].live

\* C26: every stream the mounted hook has obtained is the one streamRef
\* refers to, or has its tracks stopped.
C26_OneLiveStream ==
    \A i \in 1..Len(streams) :
        ~streams[i].orphan => (i = streamRef \/ ~streams[i].live)

---------------------------------------------------------------------------
(* C27: processDiaryPhoto never rejects *)

\* the OCR of a processDiaryPhoto call settles in this step
SettleStep == Len(processing') < Len(processing)

C27_Rule(photo, ocr) ==
    /\ diaryPhotos' = Append(diaryPhotos, photo)
    /\ photo.processed = TRUE
    /\ Len(photo.extractedTasks) >= 1
    /\ (ocr.rejected \/ ocr.text = "") => photo.extractedTasks = mockTasks(clock)
    /\ storedTasks' = storedTasks \o photo.extractedTasks
    /\ currentView' = "tasks"

\* C27: whatever the OCR of a call settles with, the call appends one
\* photo, processed and with at least one task (the two mock tasks when
\* the OCR failed or found no text), appends the tasks of the photo to the
\* store, whose tasks stay as they are, and the App shows the tasks view.
C27_NeverRejects ==
    [][SettleStep =>
         /\ PhotoStep
         /\ C27_Rule(diaryPhotos'[Len(diaryPhotos')],
                     ocrResult(diaryPhotos'[Len(diaryPhotos')].imageUrl))]_vars

\* the photo of an image the OCR failed on is in the store with the two
\* mock tasks, after a task that was in the store before
C27_Witness ==
    /\ Len(diaryPhotos) = 1
    /\ diaryPhotos[1].imageUrl = "blurred.jpg"
    /\ Len(storedTasks) = 3
    /\ storedTasks[1].createdFrom = "manual"
    /\ storedTasks[2].title = "Complete Math homework Chapter 5"
    /\ storedTasks[3].title = "Science lab report"
    /\ currentView = "tasks"

---------------------------------------------------------------------------
(* C28: the operations on one task *)

\* the tasks of prev without the task at position i
Without(prev, i) == SubSeq(prev, 1, i - 1) \o SubSeq(prev, i + 1, Len(prev))

\* a step that changes tasks of the store changes one of them, and a step
\* that removes tasks removes one of them
C28_OneTask ==
    /\ (Len(storedTasks') = Len(storedTasks) /\ storedTasks' # storedTasks)
       => \E i \in 1..Len(storedTasks) :
              \A j \in 1..Len(storedTasks) : j # i => storedTasks'[j] = storedTasks[j]
    /\ Len(storedTasks') < Len(storedTasks)
       => \E i \in 1..Len(storedTasks) : storedTasks' = Without(storedTasks, i)

\* C28: toggleTaskCompletion, updateTask and deleteTask each affect one
\* task of the store; every other task keeps its fields and its place.
C28_ExactlyOneTask == [][C28_OneTask]_vars

---------------------------------------------------------------------------
(* C29, C30: the StudyTimer *)

\* C29: once the break is loaded, its countdown goes on by itself: the
\* time left of the break comes below 300 seconds.
C29_BreakAutoStarts == (isBreak /\ timeLeft = 300) ~> (isBreak /\ timeLeft < 300)

C30_Step ==
    /\ completedSessions' >= completedSessions
    /\ (~isBreak /\ isBreak')
       => /\ isRunning /\ timeLeft = 1
          /\ completedSessions' = completedSessions + 1
          /\ timeLeft' = 300
    /\ (isBreak /\ ~isBreak')
       => /\ timeLeft' = selectedDuration * 60
          /\ completedSessions' = completedSessions
    /\ completedSessions' # completedSessions => (~isBreak /\ isBreak')
    /\ (isRunning' /\ timeLeft' # timeLeft) => timeLeft' = timeLeft - 1

\* C30: timeLeft is at least 1, and a step that leaves the timer running
\* takes one second off it or none; the expiry of a focus countdown, and no
\* other step, adds 1 to completedSessions, and loads a break of 300
\* seconds; the expiry of a break loads selectedDuration * 60 seconds of
\* focus and leaves completedSessions as it is; completedSessions never
\* decreases.
C30_PhaseInvariant == [](timeLeft >= 1) /\ [][C30_Step]_vars

\* two focus countdowns have expired, and the second break is loaded
C30_Witness == completedSessions = 2 /\ isBreak /\ timeLeft = 300 /\ ~isRunning
====
